---- MODULE Spec2Model ----
(***************************************************************************)
(* Fleet dashboard: custom-field schema (FieldManager), vehicle form and   *)
(* vehicle collection (FleetDashboard, VehicleForm), reminders             *)
(* (RemindersPanel).                                                       *)
(*                                                                         *)
(* Representation of JavaScript values:                                    *)
(*   - a string is the sequence of its characters;                         *)
(*   - null / undefined is the empty tuple <<>>, a present value v is <<v>> *)
(*     wherever a slot may be null or undefined;                           *)
(*   - an instant (Date) is [day, ms]: days since 1970-01-01 and the       *)
(*     millisecond of that day; Date.now().toString() and the seed ids     *)
(*     '1'..'4' are decimal strings, represented by the instant they       *)
(*     denote (seed id '1' is millisecond 1 of day 0).                     *)
(***************************************************************************)
EXTENDS Integers, Sequences, FiniteSets, TLC

\* ------------------------------------------------------------------ bounds
MaxFields == 5
MaxOptions == 1
MaxFieldSteps == 6
MaxVehicleSteps == 5
MaxReminderSteps == 5
MaxLongSessionSteps == 12
MaxDueSessionSteps == 6
MaxOrphanSessionSteps == 7
MaxAbsentSessionSteps == 6
MaxSchemaSessionSteps == 6
MaxReminders == 5
MaxTicks == 1
MaxVehicles == 4
MaxDocuments == 3

\* ------------------------------------------------------------ JS strings
UpperChars == <<"A","B","C","D","E","F","G","H","I","J","K","L","M",
                "N","O","P","Q","R","S","T","U","V","W","X","Y","Z">>
LowerChars == <<"a","b","c","d","e","f","g","h","i","j","k","l","m",
                "n","o","p","q","r","s","t","u","v","w","x","y","z">>

UpperToLower ==
    [c \in {UpperChars[i] : i \in 1..26} |->
        LowerChars[CHOOSE i \in 1..26 : UpperChars[i] = c]]

ToLowerChar(c) == IF c \in DOMAIN UpperToLower THEN UpperToLower[c] ELSE c

\* String.prototype.toLowerCase
ToLowerCase(s) == [i \in 1..Len(s) |-> ToLowerChar(s[i])]

IsSpace(c) == c \in {" ", "\t"}

RECURSIVE TrimStart(_)
TrimStart(s) ==
    IF s = <<>> THEN <<>>
    ELSE IF IsSpace(Head(s)) THEN TrimStart(Tail(s)) ELSE s

RECURSIVE TrimEnd(_)
TrimEnd(s) ==
    IF s = <<>> THEN <<>>
    ELSE IF IsSpace(s[Len(s)]) THEN TrimEnd(SubSeq(s, 1, Len(s) - 1)) ELSE s

\* String.prototype.trim
Trim(s) == TrimEnd(TrimStart(s))

\* xs.filter((_, index) => index !== k), k counted from 1 here
RemoveAt(s, k) == [i \in 1..(Len(s) - 1) |-> IF i < k THEN s[i] ELSE s[i + 1]]

\* ------------------------------------------------------------------ clock
MsPerDay == 24 * 60 * 60 * 1000
StartDay == 20759           \* the day the session starts: 2026-11-02

Instant(d, m) == [day |-> d, ms |-> m]

IsLeapYear(y) == (y % 4 = 0 /\ y % 100 # 0) \/ y % 400 = 0
DaysInMonth(y, m) ==
    IF m = 2 THEN (IF IsLeapYear(y) THEN 29 ELSE 28)
    ELSE IF m \in {4, 6, 9, 11} THEN 30 ELSE 31
RECURSIVE DaysBeforeMonth(_, _)
DaysBeforeMonth(y, m) ==
    IF m = 1 THEN 0 ELSE DaysBeforeMonth(y, m - 1) + DaysInMonth(y, m - 1)
\* days from 1970-01-01 to January 1st of year y (y >= 1970)
DaysBeforeYear(y) ==
    365 * (y - 1970) + ((y - 1969) \div 4) - ((y - 1901) \div 100)
        + ((y - 1601) \div 400)
SeedId(n) == Instant(0, n)  \* the id strings '1', '2', ...

\* ------------------------------------------------------------ seed schema
sYear == <<"Y","e","a","r">>

sCargoVan == <<"C","a","r","g","o"," ","V","a","n">>
sDeliveryVan == <<"D","e","l","i","v","e","r","y"," ","V","a","n">>
sBoxTruck == <<"B","o","x"," ","T","r","u","c","k">>
sDiesel == <<"D","i","e","s","e","l">>

\* A dropdown option is either a plain string (the seed data) or an object
\* {value, color} (FieldManager's DropdownOption).
StringOption(s) == [kind |-> "string", value |-> s, color |-> ""]
DropdownOption(v, c) == [kind |-> "object", value |-> v, color |-> c]
\* option.value: undefined on a plain string
OptionValue(o) == IF o.kind = "object" THEN <<o.value>> ELSE <<>>

DefaultOptionColor == "#6366f1"

CustomField(id, name, type, options, required) ==
    [id |-> id, name |-> name, type |-> type, options |-> options,
     required |-> required]

mockFields ==
    << CustomField(SeedId(1), <<"V","e","h","i","c","l","e"," ","T","y","p","e">>, "dropdown",
          << << StringOption(sCargoVan), StringOption(sDeliveryVan),
                StringOption(sBoxTruck), StringOption(<<"P","i","c","k","u","p"," ","T","r","u","c","k">>) >> >>, TRUE),
       CustomField(SeedId(2), <<"L","i","c","e","n","s","e"," ","P","l","a","t","e">>, "text", <<>>, TRUE),
       CustomField(SeedId(3), sYear, "number", <<>>, FALSE),
       CustomField(SeedId(4), <<"F","u","e","l"," ","T","y","p","e">>, "dropdown",
          << << StringOption(<<"G","a","s","o","l","i","n","e">>), StringOption(sDiesel),
                StringOption(<<"E","l","e","c","t","r","i","c">>), StringOption(<<"H","y","b","r","i","d">>) >> >>, FALSE) >>


\* ----------------------------------------------------------- JS numbers
Digits == <<"0","1","2","3","4","5","6","7","8","9">>
IsDigit(c) == \E d \in 1..10 : Digits[d] = c
DigitValue(c) == (CHOOSE d \in 1..10 : Digits[d] = c) - 1

RECURSIVE DigitsPrefixValue(_, _)
\* the value of the longest run of digits at the start of s, after acc
DigitsPrefixValue(s, acc) ==
    IF s = <<>> \/ ~IsDigit(Head(s)) THEN acc
    ELSE DigitsPrefixValue(Tail(s), acc * 10 + DigitValue(Head(s)))

\* parseInt(s): <<>> is NaN, <<n>> the integer parsed from the start of s
ParseInt(s) ==
    LET t == TrimStart(s)
        neg == t # <<>> /\ Head(t) = "-"
        u == IF t # <<>> /\ Head(t) \in {"-", "+"} THEN Tail(t) ELSE t
    IN IF u = <<>> \/ ~IsDigit(Head(u)) THEN <<>>
       ELSE <<(IF neg THEN -1 ELSE 1) * DigitsPrefixValue(u, 0)>>

\* parseFloat(s) on the inputs of the model, which carry neither fraction
\* nor exponent: the leading integer, NaN without one
ParseFloat(s) == ParseInt(s)

\* --------------------------------------------- custom-field values (any)
StringValue(s) == [t |-> "string", s |-> s, n |-> 0]
NumberValue(n) == [t |-> "number", s |-> <<>>, n |-> n]
\* JavaScript truthiness of a present value
Truthy(v) == IF v.t = "string" THEN v.s # <<>> ELSE v.n # 0
\* obj[key]: <<>> is undefined
Lookup(obj, key) == IF key \in DOMAIN obj THEN <<obj[key]>> ELSE <<>>
\* {[key]: value}, the spread of obj left out
WithKeyAlone(obj, key, value) == [k \in {key} |-> value]

\* {...obj, [key]: value}
WithKey(obj, key, value) ==
    [k \in DOMAIN obj \cup {key} |-> IF k = key THEN value ELSE obj[k]]
EmptyObject == [k \in {} |-> StringValue(<<>>)]

\* ---------------------------------------------------------- seed vehicles
kVehicleType == <<"v","e","h","i","c","l","e","T","y","p","e">>
kLicensePlate == <<"l","i","c","e","n","s","e","P","l","a","t","e">>
kYear == <<"y","e","a","r">>
sABC123 == <<"A","B","C","-","1","2","3">>

\* a document name: a literal, or `document_${stamp}.pdf`
Document(name) == [name |-> name, stamp |-> <<>>]
UploadedDocument(t) == [name |-> "document_.pdf", stamp |-> <<t>>]

\* a formatted local time, to the second ('2024-01-15 10:30')
LocalTime(d, sec) == [day |-> d, sec |-> sec]
\* Date.prototype.toLocaleString: the instant to the second
ToLocaleString(t) == LocalTime(t.day, t.ms \div 1000)

SeedCustomFields(type, plate, year) ==
    [k \in {kVehicleType, kLicensePlate, kYear} |->
        IF k = kVehicleType THEN StringValue(type)
        ELSE IF k = kLicensePlate THEN StringValue(plate)
        ELSE NumberValue(year)]

Vehicle(id, name, status, mileage, cf, documents, lastUpdated, updatedBy) ==
    [id |-> id, name |-> name, status |-> status, mileage |-> mileage,
     customFields |-> cf, documents |-> documents,
     lastUpdated |-> lastUpdated, updatedBy |-> updatedBy]

mockVehicles ==
    << Vehicle(SeedId(1), <<"F","l","e","e","t"," ","V","a","n"," ","0","0","1">>, "available", 45670,
               SeedCustomFields(sCargoVan, sABC123, 2022),
               <<Document("insurance.pdf"), Document("registration.pdf")>>,
               LocalTime(DaysBeforeYear(2024) + 14, 37800), "John Smith"),
       Vehicle(SeedId(2), <<"F","l","e","e","t"," ","V","a","n"," ","0","0","2">>, "in-use", 38920,
               SeedCustomFields(sDeliveryVan, <<"D","E","F","-","4","5","6">>, 2021),
               <<Document("insurance.pdf")>>,
               LocalTime(DaysBeforeYear(2024) + 13, 56700), "Sarah Johnson"),
       Vehicle(SeedId(3), <<"F","l","e","e","t"," ","T","r","u","c","k"," ","0","0","3">>, "maintenance", 67340,
               SeedCustomFields(sBoxTruck, <<"G","H","I","-","7","8","9">>, 2020),
               <<Document("insurance.pdf"), Document("maintenance_log.pdf")>>,
               LocalTime(DaysBeforeYear(2024) + 12, 33300), "Mike Wilson") >>


\* --------------------------------------------------------- seed reminders

Reminder(id, vehicleId, description, triggerType, triggerValue, status, completedAt, completedBy) ==
    [id |-> id, vehicleId |-> vehicleId, description |-> description,
     triggerType |-> triggerType, triggerValue |-> triggerValue,
     status |-> status, completedAt |-> completedAt, completedBy |-> completedBy]

mockReminders ==
    << Reminder(SeedId(1), SeedId(1), <<"A","n","n","u","a","l"," ","i","n","s","p","e","c","t","i","o","n"," ","d","u","e">>, "date",
                StringValue(<<"2","0","2","4","-","0","2","-","1","5">>), "incomplete", <<>>, <<>>),
       Reminder(SeedId(2), SeedId(2), <<"O","i","l"," ","c","h","a","n","g","e"," ","r","e","q","u","i","r","e","d">>, "mileage",
                NumberValue(40000), "incomplete", <<>>, <<>>),
       Reminder(SeedId(3), SeedId(3), <<"B","r","a","k","e"," ","i","n","s","p","e","c","t","i","o","n">>, "date",
                StringValue(<<"2","0","2","4","-","0","1","-","2","0">>), "complete",
                <<LocalTime(DaysBeforeYear(2024) + 17, 52200)>>, <<"Mike Wilson">>) >>

VARIABLES
    now,            \* the clock read by Date.now() / new Date()
    steps,          \* events handled so far (bounds the model)
    ticks,          \* how often the clock has advanced (bounds the model)
    customFields,   \* FleetDashboard: the custom-field schema
    fmShowForm,     \* FieldManager: showForm
    editingField,   \* FieldManager: editingField (<<>> is null)
    fmFormData,     \* FieldManager: formData
    newOption,      \* FieldManager: newOption
    fmErrors,       \* FieldManager: errors
    vehicles,       \* FleetDashboard: the vehicle collection
    showVehicleForm,\* FleetDashboard: showVehicleForm
    editingVehicle, \* FleetDashboard: editingVehicle (<<>> is null)
    vfFormData,     \* VehicleForm: formData
    vfErrors,       \* VehicleForm: errors
    reminders,      \* FleetDashboard: the reminder collection
    rpShowForm,     \* RemindersPanel: showForm
    editingReminder,\* RemindersPanel: editingReminder (<<>> is null)
    rpFormData,     \* RemindersPanel: formData
    rpErrors,       \* RemindersPanel: errors
    searchTerm,     \* VehicleList: searchTerm
    statusFilter    \* VehicleList: statusFilter

vars == <<now, steps, ticks, customFields, fmShowForm, editingField, fmFormData,
          newOption, fmErrors, vehicles, showVehicleForm, editingVehicle,
          vfFormData, vfErrors, reminders, rpShowForm, editingReminder,
          rpFormData, rpErrors, searchTerm, statusFilter>>

fmVars == <<customFields, fmShowForm, editingField, fmFormData, newOption,
            fmErrors>>

vehVars == <<vehicles, showVehicleForm, editingVehicle, vfFormData, vfErrors>>

remVars == <<reminders, rpShowForm, editingReminder, rpFormData, rpErrors>>

listVars == <<searchTerm, statusFilter>>

NoErrors == [k \in {} |-> ""]

\* every event handled counts against the budget of the model
Step(limit) == steps < limit /\ steps' = steps + 1 /\ UNCHANGED ticks

\* ------------------------------------------------------- FieldManager.tsx
FieldFormDefault ==
    [name |-> <<>>, type |-> "text", options |-> <<>>, required |-> FALSE]

FieldTypes == {"text", "number", "dropdown"}

FieldNameInputs == { <<>>, ToLowerCase(sYear), sYear \o <<" ">>, <<"V","I","N">> }
OptionInputs == { <<>>, sDiesel }

\* the comparison without toLowerCase
NameTakenCaseSensitive(fields, editing, name) ==
    \E i \in 1..Len(fields) :
        /\ fields[i].name = name
        /\ (editing = <<>> \/ fields[i].id # editing[1].id)

\* fields.some(f => f.name.toLowerCase() === formData.name.toLowerCase()
\*                  && f.id !== editingField?.id)
NameTaken(fields, editing, name) ==
    \E i \in 1..Len(fields) :
        /\ ToLowerCase(fields[i].name) = ToLowerCase(name)
        /\ (editing = <<>> \/ fields[i].id # editing[1].id)

FieldNameError(fields, editing, form) ==
    IF Trim(form.name) = <<>> THEN <<"Field name is required">>
    ELSE IF NameTaken(fields, editing, form.name)
         THEN <<"Field name already exists">>
         ELSE <<>>

\* validation without the options check
FieldOptionsErrorNever(form) == <<>>

FieldOptionsError(form) ==
    IF form.type = "dropdown" /\ Len(form.options) = 0
    THEN <<"At least one option is required for dropdown fields">>
    ELSE <<>>

\* validateForm: the errors object it builds
FieldValidate(fields, editing, form) ==
    LET ne == FieldNameError(fields, editing, form)
        oe == FieldOptionsError(form)
        keys == (IF ne # <<>> THEN {"name"} ELSE {})
                \cup (IF oe # <<>> THEN {"options"} ELSE {})
    IN [k \in keys |-> IF k = "name" THEN ne[1] ELSE oe[1]]

\* handleSubmit: the CustomField it builds
FieldData(editing, form, t) ==
    CustomField(IF editing # <<>> THEN editing[1].id ELSE t,
                Trim(form.name),
                form.type,
                IF form.type = "dropdown" THEN <<form.options>> ELSE <<>>,
                form.required)

ResetForm ==
    /\ fmFormData' = FieldFormDefault
    /\ newOption' = <<>>
    /\ fmErrors' = NoErrors
    /\ editingField' = <<>>

HandleAddField ==
    /\ ResetForm
    /\ fmShowForm' = TRUE
    /\ Step(MaxFieldSteps) /\ UNCHANGED <<vehVars, remVars, listVars>> /\ UNCHANGED <<now, customFields>>

HandleEditField ==
    \E i \in 1..Len(customFields) :
        LET field == customFields[i] IN
        /\ fmFormData' = [name |-> field.name, type |-> field.type,
                          options |-> IF field.options # <<>>
                                      THEN field.options[1] ELSE <<>>,
                          required |-> field.required]
        /\ editingField' = <<field>>
        /\ fmShowForm' = TRUE
        /\ Step(MaxFieldSteps) /\ UNCHANGED <<vehVars, remVars, listVars>> /\ UNCHANGED <<now, customFields, newOption, fmErrors>>

SetFieldName ==
    \E s \in FieldNameInputs :
        /\ fmShowForm
        /\ fmFormData' = [fmFormData EXCEPT !.name = s]
        /\ Step(MaxFieldSteps) /\ UNCHANGED <<vehVars, remVars, listVars>> /\ UNCHANGED <<now, customFields, fmShowForm, editingField,
                       newOption, fmErrors>>

\* the type Select: onValueChange fires for a value other than the current one
SetFieldType ==
    \E t \in FieldTypes :
        /\ fmShowForm
        /\ t # fmFormData.type
        /\ fmFormData' = [fmFormData EXCEPT !.type = t, !.options = <<>>]
        /\ Step(MaxFieldSteps) /\ UNCHANGED <<vehVars, remVars, listVars>> /\ UNCHANGED <<now, customFields, fmShowForm, editingField,
                       newOption, fmErrors>>

SetRequired ==
    \E b \in BOOLEAN :
        /\ fmShowForm
        /\ fmFormData' = [fmFormData EXCEPT !.required = b]
        /\ Step(MaxFieldSteps) /\ UNCHANGED <<vehVars, remVars, listVars>> /\ UNCHANGED <<now, customFields, fmShowForm, editingField,
                       newOption, fmErrors>>

SetNewOption ==
    \E s \in OptionInputs :
        /\ fmShowForm
        /\ fmFormData.type = "dropdown"
        /\ newOption' = s
        /\ Step(MaxFieldSteps) /\ UNCHANGED <<vehVars, remVars, listVars>> /\ UNCHANGED <<now, customFields, fmShowForm, editingField,
                       fmFormData, fmErrors>>

AddOptionAccepts(form, text) ==
    /\ Trim(text) # <<>>
    /\ ~ \E i \in 1..Len(form.options) :
            OptionValue(form.options[i]) = <<Trim(text)>>

addOption ==
    /\ fmShowForm
    /\ fmFormData.type = "dropdown"
    /\ Len(fmFormData.options) < MaxOptions
    /\ IF AddOptionAccepts(fmFormData, newOption)
       THEN /\ fmFormData' = [fmFormData EXCEPT !.options =
                    Append(@, DropdownOption(Trim(newOption), DefaultOptionColor))]
            /\ newOption' = <<>>
            /\ fmErrors' = IF "options" \in DOMAIN fmErrors /\ fmErrors["options"] # ""
                           THEN [fmErrors EXCEPT !["options"] = ""]
                           ELSE fmErrors
       ELSE UNCHANGED <<fmFormData, newOption, fmErrors>>
    /\ Step(MaxFieldSteps) /\ UNCHANGED <<vehVars, remVars, listVars>> /\ UNCHANGED <<now, customFields, fmShowForm, editingField>>

removeOption ==
    \E k \in 1..Len(fmFormData.options) :
        /\ fmShowForm
        /\ fmFormData.type = "dropdown"
        /\ fmFormData' = [fmFormData EXCEPT !.options = RemoveAt(@, k)]
        /\ Step(MaxFieldSteps) /\ UNCHANGED <<vehVars, remVars, listVars>> /\ UNCHANGED <<now, customFields, fmShowForm, editingField,
                       newOption, fmErrors>>

\* fields.map(f => f.id === editingField.id ? fieldData : f)
ReplaceField(fields, id, fieldData) ==
    [i \in 1..Len(fields) |-> IF fields[i].id = id THEN fieldData ELSE fields[i]]

FieldSubmitResult(fields, editing, form, t) ==
    IF editing # <<>>
    THEN ReplaceField(fields, editing[1].id, FieldData(editing, form, t))
    ELSE Append(fields, FieldData(editing, form, t))

FieldSubmitAccepted ==
    DOMAIN FieldValidate(customFields, editingField, fmFormData) = {}

HandleSubmitField ==
    /\ fmShowForm
    /\ IF FieldSubmitAccepted
       THEN /\ editingField = <<>> => Len(customFields) < MaxFields
            /\ customFields' =
                   FieldSubmitResult(customFields, editingField, fmFormData, now)
            /\ fmShowForm' = FALSE
            /\ ResetForm
       ELSE /\ fmErrors' = FieldValidate(customFields, editingField, fmFormData)
            /\ UNCHANGED <<customFields, fmShowForm, editingField, fmFormData,
                           newOption>>
    /\ Step(MaxFieldSteps) /\ UNCHANGED <<vehVars, remVars, listVars>> /\ UNCHANGED now

CancelFieldForm ==
    /\ fmShowForm
    /\ fmShowForm' = FALSE
    /\ ResetForm
    /\ Step(MaxFieldSteps) /\ UNCHANGED <<vehVars, remVars, listVars>> /\ UNCHANGED <<now, customFields>>

\* the filter with the test inverted
DeleteFieldResultInverted(fields, fieldId) ==
    LET Keep(f) == f.id = fieldId IN SelectSeq(fields, Keep)

DeleteFieldResult(fields, fieldId) ==
    LET Keep(f) == f.id # fieldId IN SelectSeq(fields, Keep)

HandleDeleteField ==
    \E i \in 1..Len(customFields) :
        /\ customFields' = DeleteFieldResult(customFields, customFields[i].id)
        /\ Step(MaxFieldSteps) /\ UNCHANGED <<vehVars, remVars, listVars>> /\ UNCHANGED <<now, fmShowForm, editingField, fmFormData,
                       newOption, fmErrors>>


\* -------------------------------------- VehicleForm.tsx, FleetDashboard
VehicleFormDefault ==
    [name |-> <<>>, status |-> "available", mileage |-> 0,
     customFields |-> EmptyObject, documents |-> <<>>]

Statuses == {"available", "in-use", "maintenance", "inactive"}
StatusInputs == {"maintenance", "inactive"}
\* the positions of the options picked in a dropdown
OptionPicks == 1..2

VehicleNameInputs == { <<" ">>, <<"V","a","n"," ","A">> }
MileageInputs == { <<"-","5">>, <<>>, <<"4","0","0","0","0">> }
TextInputs == { <<>>, sABC123 }
NumberInputs == { <<>>, <<"0">>, <<"2","0","2","2">> }

\* keys of the errors object: 'name', 'mileage', `custom_${field.id}`
ErrorKey(k) == [key |-> k, id |-> <<>>]
CustomErrorKey(id) == [key |-> "custom_", id |-> <<id>>]
\* messages: a literal, or `${field.name} is required`
Message(text) == [text |-> text, subject |-> <<>>]
RequiredMessage(name) == [text |-> " is required", subject |-> name]

NoVehicleErrors == [k \in {} |-> Message("")]

\* the check for an absent key only: '' and 0 count as present
ValueMissingOnlyUndefined(form, field) ==
    Lookup(form.customFields, field.name) = <<>>

\* !formData.customFields[field.name]
ValueMissing(form, field) ==
    LET v == Lookup(form.customFields, field.name)
    IN v = <<>> \/ ~Truthy(v[1])

VehicleNameInvalid(form) == Trim(form.name) = <<>>

\* validation without the mileage check
VehicleMileageInvalidNever(form) == FALSE

VehicleMileageInvalid(form) == form.mileage < 0

\* validateForm: the errors object it builds
VehicleValidate(fields, form) ==
    LET missing == {i \in 1..Len(fields) :
                        fields[i].required /\ ValueMissing(form, fields[i])}
        keys == (IF VehicleNameInvalid(form) THEN {ErrorKey("name")} ELSE {})
                \cup (IF VehicleMileageInvalid(form) THEN {ErrorKey("mileage")} ELSE {})
                \cup {CustomErrorKey(fields[i].id) : i \in missing}
        \* forEach: a later field of the same id overwrites the message
        LastOf(k) == CHOOSE i \in missing :
                        /\ CustomErrorKey(fields[i].id) = k
                        /\ \A j \in missing :
                              CustomErrorKey(fields[j].id) = k => j <= i
    IN [k \in keys |->
          IF k = ErrorKey("name") THEN Message("Vehicle name is required")
          ELSE IF k = ErrorKey("mileage") THEN Message("Mileage cannot be negative")
          ELSE RequiredMessage(fields[LastOf(k)].name)]

\* the form is unmounted while showVehicleForm is false; it mounts with the
\* useState defaults and the effect then loads the vehicle, if any
LoadVehicle(vehicle) ==
    [name |-> vehicle.name, status |-> vehicle.status,
     mileage |-> vehicle.mileage, customFields |-> vehicle.customFields,
     documents |-> vehicle.documents]

HandleAddVehicle ==
    /\ editingVehicle' = <<>>
    /\ showVehicleForm' = TRUE
    /\ IF showVehicleForm
       THEN UNCHANGED <<vfFormData, vfErrors>>
       ELSE vfFormData' = VehicleFormDefault /\ vfErrors' = NoVehicleErrors
    /\ Step(MaxVehicleSteps) /\ UNCHANGED <<now, vehicles, fmVars, remVars, listVars>>

HandleEditVehicle ==
    \E i \in 1..Len(vehicles) :
        /\ editingVehicle' = <<vehicles[i]>>
        /\ showVehicleForm' = TRUE
        /\ vfErrors' = IF showVehicleForm THEN vfErrors ELSE NoVehicleErrors
        /\ vfFormData' = IF showVehicleForm /\ editingVehicle' = editingVehicle
                         THEN vfFormData
                         ELSE LoadVehicle(vehicles[i])
        /\ Step(MaxVehicleSteps) /\ UNCHANGED <<now, vehicles, fmVars, remVars, listVars>>

SetVehicleName ==
    \E s \in VehicleNameInputs :
        /\ showVehicleForm
        /\ vfFormData' = [vfFormData EXCEPT !.name = s]
        /\ Step(MaxVehicleSteps)
        /\ UNCHANGED <<now, vehicles, showVehicleForm, editingVehicle, vfErrors, fmVars, remVars, listVars>>

SetVehicleStatus ==
    \E st \in StatusInputs :
        /\ showVehicleForm
        /\ st # vfFormData.status
        /\ vfFormData' = [vfFormData EXCEPT !.status = st]
        /\ Step(MaxVehicleSteps)
        /\ UNCHANGED <<now, vehicles, showVehicleForm, editingVehicle, vfErrors, fmVars, remVars, listVars>>

\* parseInt(e.target.value) || 0
MileageOfInput(raw) ==
    LET p == ParseInt(raw) IN IF p = <<>> \/ p[1] = 0 THEN 0 ELSE p[1]

SetMileage ==
    \E raw \in MileageInputs :
        /\ showVehicleForm
        /\ vfFormData' = [vfFormData EXCEPT !.mileage = MileageOfInput(raw)]
        /\ Step(MaxVehicleSteps)
        /\ UNCHANGED <<now, vehicles, showVehicleForm, editingVehicle, vfErrors, fmVars, remVars, listVars>>

\* parseFloat(e.target.value) || ''
NumberFieldValue(raw) ==
    LET p == ParseFloat(raw)
    IN IF p = <<>> \/ p[1] = 0 THEN StringValue(<<>>) ELSE NumberValue(p[1])

\* the values the input rendered for a field can hand to handleCustomFieldChange
FieldInputValues(field, form) ==
    IF field.type = "text" THEN {StringValue(s) : s \in TextInputs}
    ELSE IF field.type = "number" THEN {NumberFieldValue(raw) : raw \in NumberInputs}
    ELSE IF field.options # <<>>
         THEN {StringValue(field.options[1][k].value) :
                   k \in {k \in 1..Len(field.options[1]) \cap OptionPicks :
                             field.options[1][k].kind = "string"}}
              \ {v \in {StringValue(field.options[1][k].value) :
                            k \in 1..Len(field.options[1])} :
                     Lookup(form.customFields, field.name) = <<v>>}
         ELSE {}

\* errors after handleCustomFieldChange(fieldName, value)
ClearFieldError(fields, errors, fieldName) ==
    LET named == {i \in 1..Len(fields) : fields[i].name = fieldName}
    IN IF named = {} THEN errors
       ELSE LET first == CHOOSE i \in named : \A j \in named : i <= j
                key == CustomErrorKey(fields[first].id)
            IN IF key \in DOMAIN errors
               THEN [k \in DOMAIN errors \ {key} |-> errors[k]]
               ELSE errors

HandleCustomFieldChange ==
    \E i \in 1..Len(customFields) :
      \E value \in FieldInputValues(customFields[i], vfFormData) :
        /\ showVehicleForm
        /\ vfFormData' = [vfFormData EXCEPT !.customFields =
                              WithKey(@, customFields[i].name, value)]
        /\ vfErrors' = ClearFieldError(customFields, vfErrors, customFields[i].name)
        /\ Step(MaxVehicleSteps)
        /\ UNCHANGED <<now, vehicles, showVehicleForm, editingVehicle, fmVars, remVars, listVars>>

HandleDocumentUpload ==
    /\ showVehicleForm
    /\ Len(vfFormData.documents) < MaxDocuments
    /\ vfFormData' = [vfFormData EXCEPT !.documents = Append(@, UploadedDocument(now))]
    /\ Step(MaxVehicleSteps)
    /\ UNCHANGED <<now, vehicles, showVehicleForm, editingVehicle, vfErrors, fmVars, remVars, listVars>>

removeDocument ==
    \E k \in 1..Len(vfFormData.documents) :
        /\ showVehicleForm
        /\ vfFormData' = [vfFormData EXCEPT !.documents = RemoveAt(@, k)]
        /\ Step(MaxVehicleSteps)
        /\ UNCHANGED <<now, vehicles, showVehicleForm, editingVehicle, vfErrors, fmVars, remVars, listVars>>

CurrentUser == "Current User"

\* the update without the audit stamp
UpdatedVehicleUnstamped(v, data, t) ==
    Vehicle(v.id, data.name, data.status, data.mileage, data.customFields,
            data.documents, v.lastUpdated, v.updatedBy)

\* { ...v, ...vehicleData, lastUpdated, updatedBy }
UpdatedVehicle(v, data, t) ==
    Vehicle(v.id, data.name, data.status, data.mileage, data.customFields,
            data.documents, ToLocaleString(t), CurrentUser)

\* the vehicle handleSaveVehicle adds; the || defaults replace falsy values
NewVehicle(data, t) ==
    Vehicle(t, data.name, data.status, data.mileage, data.customFields,
            data.documents, ToLocaleString(t), CurrentUser)

\* the save that adds the edited vehicle when its id is not in the collection
SaveVehicleResultUpsert(vs, editing, data, t) ==
    IF editing # <<>>
    THEN IF \E i \in 1..Len(vs) : vs[i].id = editing[1].id
         THEN [i \in 1..Len(vs) |->
                 IF vs[i].id = editing[1].id THEN UpdatedVehicle(vs[i], data, t)
                 ELSE vs[i]]
         ELSE Append(vs, UpdatedVehicle(editing[1], data, t))
    ELSE Append(vs, NewVehicle(data, t))

\* the save that puts a new vehicle first
SaveVehicleResultPrepend(vs, editing, data, t) ==
    IF editing # <<>>
    THEN [i \in 1..Len(vs) |->
            IF vs[i].id = editing[1].id THEN UpdatedVehicle(vs[i], data, t)
            ELSE vs[i]]
    ELSE <<NewVehicle(data, t)>> \o vs

\* handleSaveVehicle: the collection it sets
SaveVehicleResult(vs, editing, data, t) ==
    IF editing # <<>>
    THEN [i \in 1..Len(vs) |->
            IF vs[i].id = editing[1].id THEN UpdatedVehicle(vs[i], data, t)
            ELSE vs[i]]
    ELSE Append(vs, NewVehicle(data, t))

\* handleSubmit that saves whatever validateForm returns
VehicleSubmitAcceptedAlways == TRUE

VehicleSubmitAccepted == DOMAIN VehicleValidate(customFields, vfFormData) = {}

HandleSubmitVehicle ==
    /\ showVehicleForm
    /\ IF VehicleSubmitAccepted
       THEN /\ editingVehicle = <<>> => Len(vehicles) < MaxVehicles
            /\ vehicles' = SaveVehicleResult(vehicles, editingVehicle, vfFormData, now)
            /\ showVehicleForm' = FALSE
            /\ editingVehicle' = <<>>
            /\ vfFormData' = VehicleFormDefault
            /\ vfErrors' = NoVehicleErrors
       ELSE /\ vfErrors' = VehicleValidate(customFields, vfFormData)
            /\ UNCHANGED <<vehicles, showVehicleForm, editingVehicle, vfFormData>>
    /\ Step(MaxVehicleSteps) /\ UNCHANGED <<now, fmVars, remVars, listVars>>

\* a cancel that hands the form data to the save
CancelVehicleFormSaving ==
    /\ showVehicleForm
    /\ editingVehicle = <<>> => Len(vehicles) < MaxVehicles
    /\ vehicles' = SaveVehicleResult(vehicles, editingVehicle, vfFormData, now)
    /\ showVehicleForm' = FALSE
    /\ editingVehicle' = <<>>
    /\ vfFormData' = VehicleFormDefault
    /\ vfErrors' = NoVehicleErrors
    /\ Step(MaxVehicleSteps) /\ UNCHANGED <<now, fmVars, remVars, listVars>>

CancelVehicleForm ==
    /\ showVehicleForm
    /\ showVehicleForm' = FALSE
    /\ editingVehicle' = <<>>
    /\ vfFormData' = VehicleFormDefault
    /\ vfErrors' = NoVehicleErrors
    /\ Step(MaxVehicleSteps) /\ UNCHANGED <<now, vehicles, fmVars, remVars, listVars>>

\* the filter with the test inverted
DeleteVehicleResultInverted(vs, id) ==
    LET Keep(v) == v.id = id IN SelectSeq(vs, Keep)

\* onDeleteVehicle: prev.filter(v => v.id !== id)
DeleteVehicleResult(vs, id) ==
    LET Keep(v) == v.id # id IN SelectSeq(vs, Keep)

onDeleteVehicle ==
    \E i \in 1..Len(vehicles) :
        /\ vehicles' = DeleteVehicleResult(vehicles, vehicles[i].id)
        /\ Step(MaxVehicleSteps)
        /\ UNCHANGED <<now, showVehicleForm, editingVehicle, vfFormData, vfErrors, fmVars, remVars, listVars>>


\* ------------------------------------------------------ RemindersPanel
ReminderFormDefault ==
    [vehicleId |-> <<>>, description |-> <<>>, triggerType |-> "date",
     triggerValue |-> <<>>]

DescriptionInputs == { <<" ">>, <<"O","i","l">> }
DateInputs == { <<>>, <<"2","0","2","6","-","1","1","-","0","3">> }
MileageTriggerInputs == { <<"0">>, <<"3","8","9","2","0">> }

\* a run of digits only
AllDigits(s) == \A i \in 1..Len(s) : IsDigit(s[i])

\* Number(s) for a string: <<>> is NaN
ToNumber(s) ==
    LET t == Trim(s)
        neg == t # <<>> /\ Head(t) = "-"
        u == IF t # <<>> /\ Head(t) \in {"-", "+"} THEN Tail(t) ELSE t
    IN IF t = <<>> THEN <<0>>
       ELSE IF u = <<>> \/ ~AllDigits(u) THEN <<>>
       ELSE <<(IF neg THEN -1 ELSE 1) * DigitsPrefixValue(u, 0)>>

RECURSIVE NaturalToString(_)
NaturalToString(n) ==
    IF n < 10 THEN <<Digits[n + 1]>>
    ELSE NaturalToString(n \div 10) \o <<Digits[(n % 10) + 1]>>

\* triggerValue.toString()
ValueToString(v) ==
    IF v.t = "string" THEN v.s
    ELSE IF v.n < 0 THEN <<"-">> \o NaturalToString(-v.n) ELSE NaturalToString(v.n)

\* new Date(s) for a date-only string YYYY-MM-DD: midnight UTC of that day;
\* <<>> is an Invalid Date
ParseDate(s) ==
    IF /\ Len(s) = 10
       /\ s[5] = "-" /\ s[8] = "-"
       /\ AllDigits(SubSeq(s, 1, 4)) /\ AllDigits(SubSeq(s, 6, 7))
       /\ AllDigits(SubSeq(s, 9, 10))
    THEN LET y == DigitsPrefixValue(SubSeq(s, 1, 4), 0)
             m == DigitsPrefixValue(SubSeq(s, 6, 7), 0)
             d == DigitsPrefixValue(SubSeq(s, 9, 10), 0)
         IN IF y >= 1970 /\ m \in 1..12 /\ d \in 1..DaysInMonth(y, m)
            THEN <<Instant(DaysBeforeYear(y) + DaysBeforeMonth(y, m) + d - 1, 0)>>
            ELSE <<>>
    ELSE <<>>

\* new Date(n) for a number of milliseconds
DateOfNumber(n) == Instant(n \div MsPerDay, n % MsPerDay)

\* a <= b on instants
NotAfter(a, b) == a.day < b.day \/ (a.day = b.day /\ a.ms <= b.ms)

\* the trigger check that looks at presence only
ReminderTriggerErrorPresenceOnly(form) ==
    IF form.triggerValue = <<>> THEN <<"Trigger value is required">>
    ELSE <<>>

ReminderTriggerError(form) ==
    IF form.triggerValue = <<>> THEN <<"Trigger value is required">>
    ELSE IF form.triggerType = "mileage"
            /\ (ToNumber(form.triggerValue) = <<>> \/ ToNumber(form.triggerValue)[1] <= 0)
         THEN <<"Mileage must be a positive number">>
    ELSE IF form.triggerType = "date" /\ ParseDate(form.triggerValue) = <<>>
         THEN <<"Invalid date format">>
    ELSE <<>>

\* validateForm: the errors object it builds
ReminderValidate(form) ==
    LET te == ReminderTriggerError(form)
        keys == (IF form.vehicleId = <<>> THEN {"vehicleId"} ELSE {})
                \cup (IF Trim(form.description) = <<>> THEN {"description"} ELSE {})
                \cup (IF te # <<>> THEN {"triggerValue"} ELSE {})
    IN [k \in keys |->
          IF k = "vehicleId" THEN "Please select a vehicle"
          ELSE IF k = "description" THEN "Description is required"
          ELSE te[1]]

ResetReminderForm ==
    /\ rpFormData' = ReminderFormDefault
    /\ rpErrors' = NoErrors
    /\ editingReminder' = <<>>

HandleAddReminder ==
    /\ ResetReminderForm
    /\ rpShowForm' = TRUE
    /\ Step(MaxReminderSteps)
    /\ UNCHANGED <<now, reminders, fmVars, vehVars, listVars>>

HandleEditReminder ==
    \E i \in 1..Len(reminders) :
        LET reminder == reminders[i] IN
        /\ rpFormData' = [vehicleId |-> <<reminder.vehicleId>>,
                          description |-> reminder.description,
                          triggerType |-> reminder.triggerType,
                          triggerValue |-> ValueToString(reminder.triggerValue)]
        /\ editingReminder' = <<reminder>>
        /\ rpShowForm' = TRUE
        /\ Step(MaxReminderSteps)
        /\ UNCHANGED <<now, reminders, rpErrors, fmVars, vehVars, listVars>>

\* the vehicle Select offers the vehicles of the collection
SetReminderVehicle ==
    \E i \in 1..Len(vehicles) :
        /\ rpShowForm
        /\ rpFormData.vehicleId # <<vehicles[i].id>>
        /\ rpFormData' = [rpFormData EXCEPT !.vehicleId = <<vehicles[i].id>>]
        /\ Step(MaxReminderSteps)
        /\ UNCHANGED <<now, reminders, rpShowForm, editingReminder, rpErrors,
                       fmVars, vehVars, listVars>>

SetDescription ==
    \E s \in DescriptionInputs :
        /\ rpShowForm
        /\ rpFormData' = [rpFormData EXCEPT !.description = s]
        /\ Step(MaxReminderSteps)
        /\ UNCHANGED <<now, reminders, rpShowForm, editingReminder, rpErrors,
                       fmVars, vehVars, listVars>>

SetTriggerType ==
    \E t \in {"date", "mileage"} :
        /\ rpShowForm
        /\ t # rpFormData.triggerType
        /\ rpFormData' = [rpFormData EXCEPT !.triggerType = t, !.triggerValue = <<>>]
        /\ Step(MaxReminderSteps)
        /\ UNCHANGED <<now, reminders, rpShowForm, editingReminder, rpErrors,
                       fmVars, vehVars, listVars>>

\* the input is of type date or number, after the trigger type
SetTriggerValue ==
    \E raw \in (IF rpFormData.triggerType = "date" THEN DateInputs
                ELSE MileageTriggerInputs) :
        /\ rpShowForm
        /\ rpFormData' = [rpFormData EXCEPT !.triggerValue = raw]
        /\ Step(MaxReminderSteps)
        /\ UNCHANGED <<now, reminders, rpShowForm, editingReminder, rpErrors,
                       fmVars, vehVars, listVars>>

\* the Reminder built with the trigger value left as the form's string
ReminderDataUnconverted(editing, form, t) ==
    Reminder(IF editing # <<>> THEN editing[1].id ELSE t,
             form.vehicleId[1],
             Trim(form.description),
             form.triggerType,
             StringValue(form.triggerValue),
             IF editing # <<>> THEN editing[1].status ELSE "incomplete",
             IF editing # <<>> THEN editing[1].completedAt ELSE <<>>,
             IF editing # <<>> THEN editing[1].completedBy ELSE <<>>)

\* handleSubmit: the Reminder it builds
ReminderData(editing, form, t) ==
    Reminder(IF editing # <<>> THEN editing[1].id ELSE t,
             form.vehicleId[1],
             Trim(form.description),
             form.triggerType,
             IF form.triggerType = "mileage"
             THEN NumberValue(ToNumber(form.triggerValue)[1])
             ELSE StringValue(form.triggerValue),
             IF editing # <<>> THEN editing[1].status ELSE "incomplete",
             IF editing # <<>> THEN editing[1].completedAt ELSE <<>>,
             IF editing # <<>> THEN editing[1].completedBy ELSE <<>>)

ReminderSubmitResult(rs, editing, form, t) ==
    IF editing # <<>>
    THEN [i \in 1..Len(rs) |->
             IF rs[i].id = editing[1].id THEN ReminderData(editing, form, t)
             ELSE rs[i]]
    ELSE Append(rs, ReminderData(editing, form, t))

HandleSubmitReminder ==
    /\ rpShowForm
    /\ IF DOMAIN ReminderValidate(rpFormData) = {}
       THEN /\ editingReminder = <<>> => Len(reminders) < MaxReminders
            /\ reminders' = ReminderSubmitResult(reminders, editingReminder,
                                                 rpFormData, now)
            /\ rpShowForm' = FALSE
            /\ ResetReminderForm
       ELSE /\ rpErrors' = ReminderValidate(rpFormData)
            /\ UNCHANGED <<reminders, rpShowForm, editingReminder, rpFormData>>
    /\ Step(MaxReminderSteps)
    /\ UNCHANGED <<now, fmVars, vehVars, listVars>>

CancelReminderForm ==
    /\ rpShowForm
    /\ rpShowForm' = FALSE
    /\ ResetReminderForm
    /\ Step(MaxReminderSteps)
    /\ UNCHANGED <<now, reminders, fmVars, vehVars, listVars>>

CompleteReminderResult(rs, reminderId, t) ==
    [i \in 1..Len(rs) |->
        IF rs[i].id = reminderId
        THEN [rs[i] EXCEPT !.status = "complete",
                           !.completedAt = <<ToLocaleString(t)>>,
                           !.completedBy = <<CurrentUser>>]
        ELSE rs[i]]

\* the card of an incomplete reminder carries the complete button
HandleCompleteReminder ==
    \E i \in 1..Len(reminders) :
        /\ reminders[i].status = "incomplete"
        /\ reminders' = CompleteReminderResult(reminders, reminders[i].id, now)
        /\ Step(MaxReminderSteps)
        /\ UNCHANGED <<now, rpShowForm, editingReminder, rpFormData, rpErrors,
                       fmVars, vehVars, listVars>>

HandleDeleteReminder ==
    \E i \in 1..Len(reminders) :
        /\ reminders' = LET Keep(r) == r.id # reminders[i].id
                        IN SelectSeq(reminders, Keep)
        /\ Step(MaxReminderSteps)
        /\ UNCHANGED <<now, rpShowForm, editingReminder, rpFormData, rpErrors,
                       fmVars, vehVars, listVars>>

\* the lookup that falls back on the first vehicle when the id is missing
getCurrentMileageOrFirst(vs, vehicleId) ==
    LET found == {i \in 1..Len(vs) : vs[i].id = vehicleId}
    IN IF found = {} THEN (IF vs = <<>> THEN 0 ELSE vs[1].mileage)
       ELSE vs[CHOOSE i \in found : \A j \in found : i <= j].mileage

\* the mileage of the first vehicle of the collection, whatever its id
getCurrentMileageOfFirst(vs, vehicleId) ==
    IF vs = <<>> THEN 0 ELSE vs[1].mileage

\* vehicles.find(v => v.id === vehicleId)?.mileage || 0
getCurrentMileage(vs, vehicleId) ==
    LET found == {i \in 1..Len(vs) : vs[i].id = vehicleId}
    IN IF found = {} THEN 0
       ELSE vs[CHOOSE i \in found : \A j \in found : i <= j].mileage

\* new Date(reminder.triggerValue) <= new Date()
TriggerDateReached(value, t) ==
    LET d == IF value.t = "string" THEN ParseDate(value.s)
             ELSE <<DateOfNumber(value.n)>>
    IN d # <<>> /\ NotAfter(d[1], t)

\* the comparison with the boundary excluded
TriggerMileageReachedStrict(value, mileage) ==
    LET n == IF value.t = "number" THEN <<value.n>> ELSE ToNumber(value.s)
    IN n # <<>> /\ mileage > n[1]

\* currentMileage >= reminder.triggerValue
TriggerMileageReached(value, mileage) ==
    LET n == IF value.t = "number" THEN <<value.n>> ELSE ToNumber(value.s)
    IN n # <<>> /\ mileage >= n[1]

\* the evaluation without the status test
isReminderDueAnyStatus(reminder, vs, t) ==
    IF reminder.triggerType = "date"
    THEN TriggerDateReached(reminder.triggerValue, t)
    ELSE TriggerMileageReached(reminder.triggerValue,
                               getCurrentMileage(vs, reminder.vehicleId))

isReminderDue(reminder, vs, t) ==
    IF reminder.status = "complete" THEN FALSE
    ELSE IF reminder.triggerType = "date"
         THEN TriggerDateReached(reminder.triggerValue, t)
         ELSE TriggerMileageReached(reminder.triggerValue,
                                    getCurrentMileage(vs, reminder.vehicleId))

\* the panel's lists and the dashboard's count
incompleteReminders(rs) == SelectSeq(rs, LAMBDA r : r.status = "incomplete")

dueReminders(rs, vs, t) ==
    SelectSeq(incompleteReminders(rs), LAMBDA r : isReminderDue(r, vs, t))

pendingReminders(rs) ==
    Len(SelectSeq(rs, LAMBDA r : r.status = "incomplete"))

\* ---------------------------------------------------------- VehicleList
\* what the search box and the status filter receive
sMixedFleet == <<"f","L","E","E","T">>
SearchInputs == { <<>>, sMixedFleet, <<"a","b","c">>, <<"2","0","2","1">> }
FilterInputs == { "all", "available", "maintenance" }

\* s starts with the characters of sub
StartsWith(s, sub) == Len(sub) <= Len(s) /\ SubSeq(s, 1, Len(sub)) = sub

\* String.prototype.includes: the search from the first position onwards
RECURSIVE Includes(_, _)
Includes(s, sub) ==
    IF StartsWith(s, sub) THEN TRUE
    ELSE IF s = <<>> THEN FALSE
    ELSE Includes(Tail(s), sub)

\* Object.values(vehicle.customFields)
ObjectValues(obj) == { obj[k] : k \in DOMAIN obj }

\* the search with the name compared as it is written
MatchesSearchCaseSensitive(vehicle, term) ==
    \/ Includes(vehicle.name, ToLowerCase(term))
    \/ \E value \in ObjectValues(vehicle.customFields) :
          Includes(ToLowerCase(ValueToString(value)), ToLowerCase(term))

MatchesSearch(vehicle, term) ==
    \/ Includes(ToLowerCase(vehicle.name), ToLowerCase(term))
    \/ \E value \in ObjectValues(vehicle.customFields) :
          Includes(ToLowerCase(ValueToString(value)), ToLowerCase(term))

MatchesStatus(vehicle, filter) == filter = "all" \/ vehicle.status = filter

filteredVehicles(vs, term, filter) ==
    LET Shown(vehicle) == MatchesSearch(vehicle, term) /\ MatchesStatus(vehicle, filter)
    IN SelectSeq(vs, Shown)

\* typing in the search box
setSearchTerm ==
    \E term \in SearchInputs :
        /\ term # searchTerm
        /\ searchTerm' = term
        /\ UNCHANGED <<now, steps, ticks, statusFilter, fmVars, vehVars, remVars>>

\* the status Select hands over a value other than the current one
setStatusFilter ==
    \E filter \in FilterInputs :
        /\ filter # statusFilter
        /\ statusFilter' = filter
        /\ UNCHANGED <<now, steps, ticks, searchTerm, fmVars, vehVars, remVars>>

\* ------------------------------------------------------------------ clock
\* Time passes between two events: by a millisecond, or to the next midnight.
TickMs ==
    /\ ticks < MaxTicks
    /\ ticks' = ticks + 1
    /\ now' = IF now.ms + 1 < MsPerDay THEN Instant(now.day, now.ms + 1)
              ELSE Instant(now.day + 1, 0)
    /\ UNCHANGED <<steps, fmVars, vehVars, remVars, listVars>>

TickDay ==
    /\ ticks < MaxTicks
    /\ ticks' = ticks + 1
    /\ now' = Instant(now.day + 1, 0)
    /\ UNCHANGED <<steps, fmVars, vehVars, remVars, listVars>>

\* the state of the components after construction
Seeded ==
    /\ now = Instant(StartDay, 36000000)
    /\ customFields = mockFields
    /\ fmShowForm = FALSE
    /\ editingField = <<>>
    /\ fmFormData = FieldFormDefault
    /\ newOption = <<>>
    /\ fmErrors = NoErrors
    /\ vehicles = mockVehicles
    /\ showVehicleForm = FALSE
    /\ editingVehicle = <<>>
    /\ vfFormData = VehicleFormDefault
    /\ vfErrors = NoVehicleErrors
    /\ reminders = mockReminders
    /\ rpShowForm = FALSE
    /\ editingReminder = <<>>
    /\ rpFormData = ReminderFormDefault
    /\ rpErrors = NoErrors
    /\ searchTerm = <<>>
    /\ statusFilter = "all"

Init ==
    /\ Seeded
    /\ steps = 0
    /\ ticks = 0


\* ------------------------------------------------------------ field claims
FieldIndexes == 1..Len(customFields)

\* the id of the field being edited, <<>> when the form adds a field
EditedFieldId == IF editingField = <<>> THEN <<>> ELSE <<editingField[1].id>>

\* some field other than the one being edited bears the form's name, up to case
FormNameBelongsToAnotherField ==
    \E i \in FieldIndexes :
        /\ ToLowerCase(customFields[i].name) = ToLowerCase(fmFormData.name)
        /\ <<customFields[i].id>> # EditedFieldId

\* C1: in every reachable state of the schema no two fields have names that
\* are equal when compared case-insensitively.
C1_UniqueFieldNames ==
    \A i, j \in FieldIndexes :
        i # j => ToLowerCase(customFields[i].name) # ToLowerCase(customFields[j].name)

\* C2: a submission whose name equals, up to case, the name of a field with
\* another id is rejected with a name error, leaves the schema unchanged and
\* the form open; a submission of an edit whose name is borne by no field of
\* another id is not rejected as a duplicate.
C2_DuplicateNameRejected ==
    [][ HandleSubmitField =>
          /\ FormNameBelongsToAnotherField =>
                /\ "name" \in DOMAIN fmErrors'
                /\ fmErrors'["name"] # ""
                /\ customFields' = customFields
                /\ fmShowForm'
                /\ fmFormData' = fmFormData
          /\ (editingField # <<>> /\ ~FormNameBelongsToAnotherField) =>
                ~ ( /\ "name" \in DOMAIN fmErrors'
                    /\ fmErrors'["name"] = "Field name already exists" )
      ]_vars

C2_Witness ==
    /\ fmShowForm
    /\ FormNameBelongsToAnotherField
    /\ "name" \in DOMAIN fmErrors
    /\ fmErrors["name"] = "Field name already exists"
    /\ fmFormData.name \notin {customFields[i].name : i \in FieldIndexes}

DropdownsHaveOptions(fields) ==
    \A i \in 1..Len(fields) :
        fields[i].type = "dropdown" =>
            fields[i].options # <<>> /\ Len(fields[i].options[1]) >= 1

\* C3: every dropdown field of the schema has at least one option, and a
\* submission of type dropdown with no option is rejected and leaves the
\* schema unchanged.
C3_DropdownHasOption ==
    /\ [] DropdownsHaveOptions(customFields)
    /\ [][ (HandleSubmitField /\ fmFormData.type = "dropdown"
                              /\ fmFormData.options = <<>>) =>
              /\ customFields' = customFields
              /\ "options" \in DOMAIN fmErrors'
              /\ fmErrors'["options"] # ""
         ]_vars

\* a dropdown field saved through the form is in the schema
C3_Witness ==
    \E i \in FieldIndexes :
        /\ customFields[i].type = "dropdown"
        /\ customFields[i].options # <<>>
        /\ \E k \in 1..Len(customFields[i].options[1]) :
               customFields[i].options[1][k].kind = "object"


\* the fields of a schema whose id is not the given one, in their order
RECURSIVE FieldsOtherThan(_, _)
FieldsOtherThan(fields, id) ==
    IF fields = <<>> THEN <<>>
    ELSE (IF Head(fields).id = id THEN <<>> ELSE <<Head(fields)>>)
         \o FieldsOtherThan(Tail(fields), id)

\* C4: deleting a field by id leaves the previous schema without the fields
\* of that id, the other fields in their previous order, and leaves the
\* vehicle collection as it was.
C4_DeleteFieldFrame ==
    [][ (HandleDeleteField \/ Len(customFields') < Len(customFields)) =>
          /\ \E i \in FieldIndexes :
                customFields' = FieldsOtherThan(customFields, customFields[i].id)
          /\ Len(customFields') < Len(customFields)
          /\ vehicles' = vehicles
      ]_vars

C4_Witness ==
    /\ Len(customFields) < Len(mockFields)
    /\ \A i \in FieldIndexes : \E j \in 1..Len(mockFields) : customFields[i] = mockFields[j]
    /\ vehicles = mockVehicles

NextFields ==
    \/ HandleAddField
    \/ HandleEditField
    \/ SetFieldName
    \/ SetFieldType
    \/ SetRequired
    \/ SetNewOption
    \/ addOption
    \/ removeOption
    \/ HandleSubmitField
    \/ CancelFieldForm
    \/ HandleDeleteField
    \/ TickMs

SpecFields == Init /\ [][NextFields]_vars


\* ---------------------------------------------------------- vehicle claims
VehicleIndexes == 1..Len(vehicles)

\* a submission of the vehicle form that invoked the save callback
SubmitSaved == HandleSubmitVehicle /\ ~showVehicleForm'

\* C5: every vehicle of the collection has mileage >= 0, and a submission
\* whose mileage is negative is rejected and leaves the collection unchanged.
C5_MileageNonNegative ==
    /\ [] (\A i \in VehicleIndexes : vehicles[i].mileage >= 0)
    /\ [][ (HandleSubmitVehicle /\ vfFormData.mileage < 0) =>
              /\ vehicles' = vehicles
              /\ showVehicleForm'
              /\ ErrorKey("mileage") \in DOMAIN vfErrors'
         ]_vars

C5_Witness ==
    /\ showVehicleForm
    /\ vfFormData.mileage < 0
    /\ ErrorKey("mileage") \in DOMAIN vfErrors

\* C6: when validation produces an error on submit the collection is
\* unchanged, the form stays open and the edit in progress is retained.
C6_ErrorBlocksSave ==
    [][ (HandleSubmitVehicle /\ VehicleValidate(customFields, vfFormData) # NoVehicleErrors) =>
          /\ vehicles' = vehicles
          /\ showVehicleForm'
          /\ editingVehicle' = editingVehicle
          /\ vfFormData' = vfFormData
      ]_vars

C6_Witness ==
    /\ showVehicleForm
    /\ ErrorKey("name") \in DOMAIN vfErrors
    /\ editingVehicle # <<>>
    /\ vfFormData # LoadVehicle(editingVehicle[1])
    /\ vehicles = mockVehicles

\* the value the edit in progress stores under the field's name is truthy
FieldFilled(field) ==
    /\ field.name \in DOMAIN vfFormData.customFields
    /\ LET v == vfFormData.customFields[field.name]
       IN (v.t = "string" /\ Len(v.s) > 0) \/ (v.t = "number" /\ v.n # 0)

FormAcceptable ==
    /\ Trim(vfFormData.name) # <<>>
    /\ vfFormData.mileage >= 0
    /\ \A i \in FieldIndexes : customFields[i].required => FieldFilled(customFields[i])

\* C7: a submission is accepted iff the name is non-empty after trimming,
\* the mileage is >= 0 and every required field of the schema has a truthy
\* value under its name; each missing required field yields an error keyed
\* by its id, and a missing value of a non-required field blocks nothing.
C7_AcceptedIff ==
    [][ HandleSubmitVehicle =>
          /\ FormAcceptable <=> ~showVehicleForm'
          /\ \A i \in FieldIndexes :
                (customFields[i].required /\ ~FieldFilled(customFields[i]))
                    <=> CustomErrorKey(customFields[i].id) \in DOMAIN vfErrors'
      ]_vars

\* a vehicle saved through the form without a value for the optional Year
C7_Witness ==
    \E i \in VehicleIndexes :
        /\ vehicles[i].updatedBy = CurrentUser
        /\ sYear \notin DOMAIN vehicles[i].customFields
        /\ \E k \in FieldIndexes : customFields[k].name = sYear /\ ~customFields[k].required

\* C8: a successful save in edit mode leaves the vehicles of the edited id
\* with the submitted name, status, mileage, customFields and documents,
\* their id, and the audit fields of the current clock and user; every
\* other vehicle is unchanged.
C8_EditSaveOverwrites ==
    [][ (SubmitSaved /\ editingVehicle # <<>>) =>
          /\ Len(vehicles') = Len(vehicles)
          /\ \A i \in VehicleIndexes :
                IF vehicles[i].id = editingVehicle[1].id
                THEN /\ vehicles'[i].id = vehicles[i].id
                     /\ vehicles'[i].name = vfFormData.name
                     /\ vehicles'[i].status = vfFormData.status
                     /\ vehicles'[i].mileage = vfFormData.mileage
                     /\ vehicles'[i].customFields = vfFormData.customFields
                     /\ vehicles'[i].documents = vfFormData.documents
                     /\ vehicles'[i].lastUpdated = ToLocaleString(now)
                     /\ vehicles'[i].updatedBy = CurrentUser
                ELSE vehicles'[i] = vehicles[i]
      ]_vars

C8_Witness ==
    /\ Len(vehicles) = Len(mockVehicles)
    /\ \E i \in VehicleIndexes :
        /\ vehicles[i].id = mockVehicles[i].id
        /\ vehicles[i].updatedBy = CurrentUser
        /\ vehicles[i].customFields # mockVehicles[i].customFields
        /\ \A j \in VehicleIndexes \ {i} : vehicles[j] = mockVehicles[j]

NextVehicles ==
    \/ HandleAddVehicle
    \/ HandleEditVehicle
    \/ SetVehicleName
    \/ SetVehicleStatus
    \/ SetMileage
    \/ HandleCustomFieldChange
    \/ HandleDocumentUpload
    \/ removeDocument
    \/ HandleSubmitVehicle
    \/ CancelVehicleForm
    \/ onDeleteVehicle
    \/ TickMs

SpecVehicles == Init /\ [][NextVehicles]_vars


\* --------------------------------------------------------- reminder claims
ReminderIndexes == 1..Len(reminders)

\* C9: a reminder whose status is complete is never evaluated as due,
\* whatever its trigger, the mileage of its vehicle and the date.
C9_CompleteNeverDue ==
    \A i \in ReminderIndexes :
        reminders[i].status = "complete" => ~isReminderDue(reminders[i], vehicles, now)

\* a mileage reminder completed in the panel whose threshold its vehicle has reached
C9_Witness ==
    \E i \in ReminderIndexes :
        /\ reminders[i].status = "complete"
        /\ reminders[i].completedBy = <<CurrentUser>>
        /\ reminders[i].triggerType = "mileage"
        /\ \E j \in VehicleIndexes :
              /\ vehicles[j].id = reminders[i].vehicleId
              /\ vehicles[j].mileage >= reminders[i].triggerValue.n

NextReminders ==
    \/ HandleAddReminder
    \/ HandleEditReminder
    \/ SetReminderVehicle
    \/ SetDescription
    \/ SetTriggerType
    \/ SetTriggerValue
    \/ HandleSubmitReminder
    \/ CancelReminderForm
    \/ HandleCompleteReminder
    \/ HandleDeleteReminder
    \/ onDeleteVehicle
    \/ TickDay

SpecReminders == Init /\ [][NextReminders]_vars


\* C10: an incomplete mileage reminder whose vehicle exists is due iff the
\* mileage of that vehicle is >= the trigger value.
C10_MileageDueIff ==
    \A i \in ReminderIndexes :
        (reminders[i].status = "incomplete" /\ reminders[i].triggerType = "mileage") =>
            \A j \in VehicleIndexes :
                vehicles[j].id = reminders[i].vehicleId =>
                    (isReminderDue(reminders[i], vehicles, now)
                        <=> vehicles[j].mileage >= reminders[i].triggerValue.n)

\* the seeded threshold 40000 met exactly by an edited odometer reading
C10_Witness ==
    \E i \in ReminderIndexes, j \in VehicleIndexes :
        /\ reminders[i].status = "incomplete"
        /\ reminders[i].triggerType = "mileage"
        /\ vehicles[j].id = reminders[i].vehicleId
        /\ vehicles[j].mileage = 40000
        /\ reminders[i].triggerValue.n = 40000
        /\ isReminderDue(reminders[i], vehicles, now)

\* the odometer readings change under the reminders
NextMileage ==
    \/ HandleEditVehicle
    \/ HandleCustomFieldChange
    \/ SetMileage
    \/ HandleSubmitVehicle
    \/ onDeleteVehicle
    \/ HandleCompleteReminder
    \/ HandleDeleteReminder

SpecMileage == Init /\ [][NextMileage]_vars

\* ------------------------------------------------------------ date claims
\* the offsets of the time zones considered, in minutes as
\* Date.prototype.getTimezoneOffset reports them (UTC minus local time)
TimezoneOffsets == { -120, 0, 300 }

\* the calendar day, in the zone of the given offset, that contains instant t
LocalDay(t, offset) ==
    LET m == t.ms - offset * 60 * 1000
    IN IF m < 0 THEN t.day - 1
       ELSE IF m >= MsPerDay THEN t.day + 1
       ELSE t.day

\* the calendar day a date string names
TriggerDay(value) == ParseDate(value.s)[1].day

IncompleteDateReminder(r) ==
    /\ r.status = "incomplete"
    /\ r.triggerType = "date"
    /\ r.triggerValue.t = "string"
    /\ ParseDate(r.triggerValue.s) # <<>>

\* C11: an incomplete date reminder is due iff the calendar day of its
\* trigger value is on or before the calendar day of today, at whatever time
\* of day and in whatever time zone the evaluation happens.
C11_DateDueIffDayReached ==
    \A i \in ReminderIndexes :
        IncompleteDateReminder(reminders[i]) =>
            \A offset \in TimezoneOffsets :
                isReminderDue(reminders[i], vehicles, now)
                    <=> TriggerDay(reminders[i].triggerValue) <= LocalDay(now, offset)

\* the same comparison with today read as the UTC calendar day only
C11_DateDueIffUtcDayReached ==
    \A i \in ReminderIndexes :
        IncompleteDateReminder(reminders[i]) =>
            (isReminderDue(reminders[i], vehicles, now)
                <=> TriggerDay(reminders[i].triggerValue) <= LocalDay(now, 0))

\* ------------------------------------------------------ completion claims
\* C12: a reminder whose status is complete stays complete under every
\* operation of the panel for as long as it is in the collection: only its
\* deletion ends it.
C12_CompleteIsOneWay ==
    [][ \A i \in ReminderIndexes :
            reminders[i].status = "complete" =>
                \A j \in 1..Len(reminders') :
                    reminders'[j].id = reminders[i].id =>
                        reminders'[j].status = "complete" ]_vars

\* two reminders created one after the other, then completed: a longer
\* session of the panel, on fewer of its controls
InitLongSession ==
    /\ Seeded
    /\ steps = MaxReminderSteps - MaxLongSessionSteps
    /\ ticks = 0

NextLongSession ==
    \/ HandleAddReminder
    \/ SetReminderVehicle
    \/ SetDescription
    \/ SetTriggerValue
    \/ HandleSubmitReminder
    \/ HandleCompleteReminder
    \/ TickDay

SpecLongSession == InitLongSession /\ [][NextLongSession]_vars

\* C13: completing is idempotent in effect: a step of complete leaves the
\* completedAt and the completedBy of every reminder that is already
\* complete as they are, the reminder complete is invoked on included.
C13_CompleteIsIdempotent ==
    [][ HandleCompleteReminder =>
            \A i \in ReminderIndexes :
                reminders[i].status = "complete" =>
                    /\ reminders'[i].completedAt = reminders[i].completedAt
                    /\ reminders'[i].completedBy = reminders[i].completedBy ]_vars

\* completedAt and completedBy are present on the complete reminders only
CompletionStamped(r) ==
    /\ r.status = "complete" => (r.completedAt # <<>> /\ r.completedBy # <<>>)
    /\ r.status # "complete" => (r.completedAt = <<>> /\ r.completedBy = <<>>)

\* reminder k alone becomes complete, stamped with the clock and the user
CompletedAlone(k) ==
    reminders' = [reminders EXCEPT
                    ![k] = [@ EXCEPT !.status = "complete",
                                     !.completedAt = <<ToLocaleString(now)>>,
                                     !.completedBy = <<CurrentUser>>]]

\* C14: a reminder has completedAt and completedBy set iff its status is
\* complete; completing an incomplete reminder makes it complete and stamps
\* both fields from the clock and the user, its other fields and every other
\* reminder staying as they are.
C14_StampedIffComplete ==
    /\ [](\A i \in ReminderIndexes : CompletionStamped(reminders[i]))
    /\ [][ HandleCompleteReminder =>
             \E k \in ReminderIndexes :
                 reminders[k].status = "incomplete" /\ CompletedAlone(k) ]_vars

\* the first half of C14 alone
C14_StampedInvariant == \A i \in ReminderIndexes : CompletionStamped(reminders[i])

\* -------------------------------------------------------- due-state claims
\* a reminder edited until it is due, then the odometer of its vehicle
\* edited, then the vehicle deleted
InitDueSession ==
    /\ Seeded
    /\ steps = MaxVehicleSteps - MaxDueSessionSteps
    /\ ticks = 0

NextDueSession ==
    \/ HandleEditReminder
    \/ SetReminderVehicle
    \/ SetTriggerValue
    \/ HandleSubmitReminder
    \/ HandleCompleteReminder
    \/ HandleEditVehicle
    \/ HandleCustomFieldChange
    \/ SetMileage
    \/ HandleSubmitVehicle
    \/ onDeleteVehicle

SpecDueSession == InitDueSession /\ [][NextDueSession]_vars

\* no vehicle that stays in the collection has its mileage lowered by the step
MileageNeverDecreases ==
    \A a \in VehicleIndexes :
        \A b \in 1..Len(vehicles') :
            vehicles'[b].id = vehicles[a].id =>
                vehicles'[b].mileage >= vehicles[a].mileage

DueMileageReminder(r) ==
    /\ r.status = "incomplete"
    /\ r.triggerType = "mileage"
    /\ isReminderDue(r, vehicles, now)

\* the step keeps the vehicle of r in the collection
VehicleKept(r) == \E b \in 1..Len(vehicles') : vehicles'[b].id = r.vehicleId

\* q is r with the vehicle and the trigger it had
SameTrigger(r, q) ==
    /\ q.vehicleId = r.vehicleId
    /\ q.triggerType = r.triggerType
    /\ q.triggerValue = r.triggerValue

\* C15 (as stated): while no mileage decreases, a mileage reminder that is
\* due stays due in every later state until it is completed.
C15_DueIsMonotonic ==
    [][ MileageNeverDecreases =>
          \A i \in ReminderIndexes :
              DueMileageReminder(reminders[i]) =>
                  \A j \in 1..Len(reminders') :
                      (reminders'[j].id = reminders[i].id
                          /\ reminders'[j].status = "incomplete")
                      => isReminderDue(reminders'[j], vehicles', now') ]_vars

\* C15 (amended): while no mileage decreases, a mileage reminder that is due
\* stays due until it is completed, for as long as its vehicle stays in the
\* collection and its vehicle and trigger are not changed through the form.
C15_DueIsMonotonicWhileKept ==
    [][ MileageNeverDecreases =>
          \A i \in ReminderIndexes :
              (DueMileageReminder(reminders[i]) /\ VehicleKept(reminders[i])) =>
                  \A j \in 1..Len(reminders') :
                      (reminders'[j].id = reminders[i].id
                          /\ reminders'[j].status = "incomplete"
                          /\ SameTrigger(reminders[i], reminders'[j]))
                      => isReminderDue(reminders'[j], vehicles', now') ]_vars

\* the seeded oil-change reminder, due since the odometer of its vehicle rose
\* to 40000, with the vehicle form opened again afterwards
C15_Witness ==
    \E i \in ReminderIndexes, j \in VehicleIndexes :
        /\ DueMileageReminder(reminders[i])
        /\ vehicles[j].id = reminders[i].vehicleId
        /\ vehicles[j].mileage = 40000
        /\ vehicles[j].updatedBy = CurrentUser
        /\ showVehicleForm

\* ---------------------------------------------------- trigger-type claims
\* the trigger value is of the kind its trigger type asks for
TriggerMatchesType(r) ==
    /\ r.triggerType = "mileage" => r.triggerValue.t = "number"
    /\ r.triggerType = "date" =>
          (r.triggerValue.t = "string" /\ ParseDate(r.triggerValue.s) # <<>>)

\* C16: the trigger value of every reminder matches its trigger type (a
\* number for mileage, a date string for date), and switching the trigger
\* type in the form clears the trigger value typed so far.
C16_TriggerValueMatchesType ==
    /\ [](\A i \in ReminderIndexes : TriggerMatchesType(reminders[i]))
    /\ [][ SetTriggerType =>
             /\ rpFormData'.triggerType # rpFormData.triggerType
             /\ rpFormData'.triggerValue = <<>> ]_vars

\* the seeded date reminder, saved as a mileage reminder after its form was
\* switched to mileage and a threshold typed
C16_Witness ==
    \E i \in ReminderIndexes :
        /\ reminders[i].id = SeedId(1)
        /\ reminders[i].triggerType = "mileage"
        /\ reminders[i].triggerValue = NumberValue(38920)

\* ----------------------------------------------------------- id claims
\* no two records of the collection bear the same id
DistinctIds(records) ==
    \A i, j \in 1..Len(records) : i # j => records[i].id # records[j].id

\* C17: within each collection (vehicles, reminders, custom fields) the ids
\* are pairwise distinct, also when two records are created at the same
\* reading of the clock.
C17_IdsDistinct ==
    /\ DistinctIds(vehicles)
    /\ DistinctIds(reminders)
    /\ DistinctIds(customFields)

\* ------------------------------------------------------------ list claims
\* sub occurs in s as a run of consecutive characters
IsSubstring(sub, s) ==
    \E start \in 0..Len(s) :
        /\ start + Len(sub) <= Len(s)
        /\ \A k \in 1..Len(sub) : s[start + k] = sub[k]

\* the vehicle is one the search term and the status filter let through
Listed(vehicle) ==
    /\ \/ IsSubstring(ToLowerCase(searchTerm), ToLowerCase(vehicle.name))
       \/ \E k \in DOMAIN vehicle.customFields :
             IsSubstring(ToLowerCase(searchTerm),
                         ToLowerCase(ValueToString(vehicle.customFields[k])))
    /\ statusFilter = "all" \/ statusFilter = vehicle.status

\* shown is the sub-sequence of the collection made of the listed vehicles
IsListedSubsequence(shown) ==
    \E at \in [1..Len(shown) -> VehicleIndexes] :
        /\ \A a, b \in 1..Len(shown) : a < b => at[a] < at[b]
        /\ \A a \in 1..Len(shown) : shown[a] = vehicles[at[a]]
        /\ \A i \in VehicleIndexes :
              Listed(vehicles[i]) <=> \E a \in 1..Len(shown) : at[a] = i

\* C18: the list shown is the sub-sequence, in collection order, of the
\* vehicles whose name or some custom-field value contains the search term
\* (case-insensitively) and whose status the filter admits; with an empty
\* term and the filter 'all' it is the whole collection.
C18_ListIsFilteredSubsequence ==
    /\ IsListedSubsequence(filteredVehicles(vehicles, searchTerm, statusFilter))
    /\ (searchTerm = <<>> /\ statusFilter = "all") =>
          filteredVehicles(vehicles, searchTerm, statusFilter) = vehicles

\* a mixed-case term that every name contains and a status filter that
\* admits the first and the third of three vehicles, the first having been
\* set to maintenance by an edit
C18_Witness ==
    /\ searchTerm = sMixedFleet
    /\ statusFilter = "maintenance"
    /\ Len(vehicles) = 3
    /\ vehicles[1].status = "maintenance"
    /\ filteredVehicles(vehicles, searchTerm, statusFilter) = <<vehicles[1], vehicles[3]>>

NextList ==
    \/ setSearchTerm
    \/ setStatusFilter
    \/ HandleEditVehicle
    \/ SetVehicleStatus
    \/ HandleCustomFieldChange
    \/ HandleSubmitVehicle
    \/ onDeleteVehicle

SpecList == Init /\ [][NextList]_vars

\* -------------------------------------------------------- document claims
\* after is before with one name added at the end that before did not hold
AppendedFresh(before, after) ==
    /\ Len(after) = Len(before) + 1
    /\ \A k \in 1..Len(before) : after[k] = before[k]
    /\ \A k \in 1..Len(before) : after[Len(after)] # before[k]

\* after is before without the element at position i, the others in order
RemovedAt(before, after, i) ==
    /\ Len(after) = Len(before) - 1
    /\ \A k \in 1..(i - 1) : after[k] = before[k]
    /\ \A k \in i..Len(after) : after[k] = before[k + 1]

\* C19: in the document list of the vehicle form, append adds one name at
\* the end, a name that no element of the list bears, and leaves the others
\* as they are; remove at an index deletes the element at that position and
\* keeps the order of the others.
C19_DocumentList ==
    /\ [][ HandleDocumentUpload =>
             AppendedFresh(vfFormData.documents, vfFormData'.documents) ]_vars
    /\ [][ removeDocument =>
             \E i \in 1..Len(vfFormData.documents) :
                 RemovedAt(vfFormData.documents, vfFormData'.documents, i) ]_vars

\* C19 without the freshness of the appended name
C19_DocumentListOrder ==
    /\ [][ HandleDocumentUpload =>
             /\ Len(vfFormData'.documents) = Len(vfFormData.documents) + 1
             /\ SubSeq(vfFormData'.documents, 1, Len(vfFormData.documents))
                    = vfFormData.documents ]_vars
    /\ [][ removeDocument =>
             \E i \in 1..Len(vfFormData.documents) :
                 RemovedAt(vfFormData.documents, vfFormData'.documents, i) ]_vars

\* ----------------------------------------------------- missing vehicles
\* a mileage reminder added through the form, then its vehicle deleted
InitOrphanSession ==
    /\ Seeded
    /\ steps = MaxReminderSteps - MaxOrphanSessionSteps
    /\ ticks = 0

NextOrphanSession ==
    \/ HandleAddReminder
    \/ SetReminderVehicle
    \/ SetDescription
    \/ SetTriggerType
    \/ SetTriggerValue
    \/ HandleSubmitReminder
    \/ onDeleteVehicle

SpecOrphanSession == InitOrphanSession /\ [][NextOrphanSession]_vars

\* an incomplete mileage reminder whose vehicle is not in the collection
OrphanMileageReminder(r) ==
    /\ r.status = "incomplete"
    /\ r.triggerType = "mileage"
    /\ \A j \in VehicleIndexes : vehicles[j].id # r.vehicleId

\* thresholds on both sides of zero
Thresholds == { -1, 0, 1, 40000 }

\* C20: for an incomplete mileage reminder whose vehicle is missing the
\* current mileage is 0, so that it is due iff its threshold is <= 0
\* whatever the threshold; the reminders of the collection, whose
\* thresholds the form keeps positive, are never due once their vehicle is
\* deleted.
C20_MissingVehicleMileageZero ==
    \A i \in ReminderIndexes :
        OrphanMileageReminder(reminders[i]) =>
            /\ getCurrentMileage(vehicles, reminders[i].vehicleId) = 0
            /\ \A n \in Thresholds :
                  isReminderDue([reminders[i] EXCEPT !.triggerValue = NumberValue(n)],
                                vehicles, now) <=> n <= 0
            /\ reminders[i].triggerValue.n > 0
            /\ ~isReminderDue(reminders[i], vehicles, now)

\* a mileage reminder added through the form (its id is a reading of the
\* clock) whose vehicle has been deleted since
C20_Witness ==
    \E i \in ReminderIndexes :
        /\ OrphanMileageReminder(reminders[i])
        /\ reminders[i].id = now
        /\ reminders[i].triggerValue = NumberValue(38920)

\* ------------------------------------------------------ absent-id claims
\* the record being edited is no longer in the collection
EditedVehicleAbsent ==
    /\ editingVehicle # <<>>
    /\ \A i \in VehicleIndexes : vehicles[i].id # editingVehicle[1].id

EditedReminderAbsent ==
    /\ editingReminder # <<>>
    /\ \A i \in ReminderIndexes : reminders[i].id # editingReminder[1].id

\* C21: submitting the edit of a vehicle, or of a reminder, that has been
\* deleted since the form was opened leaves the collection as the delete
\* left it: the record is not created again and no other record changes.
C21_UpdateOfAbsentIdIsNoOp ==
    /\ [][ (HandleSubmitVehicle /\ EditedVehicleAbsent) => vehicles' = vehicles ]_vars
    /\ [][ (HandleSubmitReminder /\ EditedReminderAbsent) => reminders' = reminders ]_vars

\* both forms open on a deleted record, each with input that validates
C21_Witness ==
    /\ showVehicleForm /\ EditedVehicleAbsent /\ VehicleSubmitAccepted
    /\ Len(vehicles) = 2
    /\ rpShowForm /\ EditedReminderAbsent /\ DOMAIN ReminderValidate(rpFormData) = {}
    /\ Len(reminders) = 2

InitAbsentSession ==
    /\ Seeded
    /\ steps = MaxVehicleSteps - MaxAbsentSessionSteps
    /\ ticks = 0

NextAbsentSession ==
    \/ HandleEditVehicle
    \/ HandleCustomFieldChange
    \/ onDeleteVehicle
    \/ HandleSubmitVehicle
    \/ HandleEditReminder
    \/ HandleDeleteReminder
    \/ HandleSubmitReminder

SpecAbsentSession == InitAbsentSession /\ [][NextAbsentSession]_vars

\* ---------------------------------------------------- stale-key claims
\* the schema has a field of that name
IsFieldName(name) == \E i \in FieldIndexes : customFields[i].name = name

\* C22: a change of the schema (a field renamed or deleted) changes no
\* vehicle, so that the values stay under the old field names; and a
\* successful edit of a vehicle through the form keeps every key of its
\* customFields that names no field of the schema.
C22_StaleKeysPersist ==
    /\ [][ customFields' # customFields => vehicles' = vehicles ]_vars
    /\ [][ (SubmitSaved /\ editingVehicle # <<>>) =>
             \A i \in VehicleIndexes :
                 vehicles[i].id = editingVehicle[1].id =>
                     \A k \in DOMAIN vehicles[i].customFields :
                         ~IsFieldName(k) => k \in DOMAIN vehicles'[i].customFields ]_vars

\* a vehicle saved through the form that holds, beside its seeded keys, a
\* value under a name that the schema has given up since
C22_Witness ==
    \E i \in VehicleIndexes :
        /\ vehicles[i].updatedBy = CurrentUser
        /\ kLicensePlate \in DOMAIN vehicles[i].customFields
        /\ \E k \in DOMAIN vehicles[i].customFields :
              /\ k \notin {kVehicleType, kLicensePlate, kYear}
              /\ ~IsFieldName(k)

InitSchemaSession ==
    /\ Seeded
    /\ steps = MaxVehicleSteps - MaxSchemaSessionSteps
    /\ ticks = 0

NextSchemaSession ==
    \/ HandleDeleteField
    \/ HandleEditField
    \/ SetFieldName
    \/ HandleSubmitField
    \/ HandleEditVehicle
    \/ HandleCustomFieldChange
    \/ HandleSubmitVehicle

SpecSchemaSession == InitSchemaSession /\ [][NextSchemaSession]_vars

\* --------------------------------------------------- number-field claims
\* raw is a numeral: the number input hands over digits, or '' when the
\* entry is no number
IsNumeral(raw) == raw # <<>> /\ AllDigits(raw)

\* the value an input is to leave in the edit in progress
ExpectedNumberValue(raw) ==
    IF IsNumeral(raw) THEN NumberValue(DigitsPrefixValue(raw, 0))
    ELSE StringValue(<<>>)

\* the edit in progress after handleCustomFieldChange(field.name, value)
FormAfterChange(field, value) ==
    [vfFormData EXCEPT !.customFields = WithKey(@, field.name, value)]

\* the input of a number field is stored as the claim has it, and blocks
\* the save for that field only if the field is required
NumberInputStored(field, raw) ==
    LET form == FormAfterChange(field, NumberFieldValue(raw))
    IN /\ Lookup(form.customFields, field.name) = <<ExpectedNumberValue(raw)>>
       /\ CustomErrorKey(field.id) \in DOMAIN VehicleValidate(customFields, form)
             => field.required

\* C23: in the open vehicle form, an input of a number field that parses as
\* a number is stored as that number, 0 included, and one that does not
\* parse is stored as the empty string; neither blocks the save for that
\* field unless the field is required.
C23_NumberInputStored ==
    showVehicleForm =>
        \A i \in FieldIndexes :
            customFields[i].type = "number" =>
                \A raw \in NumberInputs : NumberInputStored(customFields[i], raw)

\* C23 for the inputs other than zero
C23_NonZeroNumberInputStored ==
    showVehicleForm =>
        \A i \in FieldIndexes :
            customFields[i].type = "number" =>
                \A raw \in NumberInputs \ {<<"0">>} :
                    NumberInputStored(customFields[i], raw)

\* ------------------------------------------------------ dropdown claims
\* the options of a field, none when the field carries no options
OptionsOf(field) == IF field.options = <<>> THEN <<>> ELSE field.options[1]

\* the value held for a dropdown field is absent, empty or one of its options
\* (the string itself for a plain-string option, .value for an object)
ValueAmongOptions(vehicle, field) ==
    LET held == Lookup(vehicle.customFields, field.name)
    IN \/ held = <<>>
       \/ held[1] = StringValue(<<>>)
       \/ \E k \in 1..Len(OptionsOf(field)) :
             held[1] = StringValue(OptionsOf(field)[k].value)

\* C24: for every vehicle and every dropdown field of the schema, the value
\* the vehicle holds for the field is absent, empty, or the value of one of
\* the options the field has now.
C24_DropdownValueAmongOptions ==
    \A i \in VehicleIndexes :
        \A j \in FieldIndexes :
            customFields[j].type = "dropdown" =>
                ValueAmongOptions(vehicles[i], customFields[j])

\* ------------------------------------------------- dashboard count claims
\* C25: the number the dashboard shows under 'Reminders Due' is the number
\* of due reminders, the count the panel shows under 'Due Now'.
C25_RemindersDueIsDueNow ==
    pendingReminders(reminders) = Len(dueReminders(reminders, vehicles, now))

\* what the dashboard number is: the count of the panel's pending list
C25_RemindersDueIsPending ==
    pendingReminders(reminders) = Len(incompleteReminders(reminders))

\* ------------------------------------------------- unchanged-edit claims
\* the edit form is open on a vehicle of the collection and holds what was
\* loaded from it
UnchangedEdit ==
    /\ showVehicleForm
    /\ editingVehicle # <<>>
    /\ \E i \in VehicleIndexes : vehicles[i] = editingVehicle[1]
    /\ vfFormData = LoadVehicle(editingVehicle[1])

\* the fields the form carries are the same before and after the step
EditedVehicleKept ==
    \A i \in VehicleIndexes :
        vehicles[i] = editingVehicle[1] =>
            /\ i \in DOMAIN vehicles'
            /\ vehicles'[i].name = vehicles[i].name
            /\ vehicles'[i].status = vehicles[i].status
            /\ vehicles'[i].mileage = vehicles[i].mileage
            /\ vehicles'[i].customFields = vehicles[i].customFields
            /\ vehicles'[i].documents = vehicles[i].documents

\* C26: submitting the edit form of a stored vehicle without changing
\* anything passes validation and leaves the vehicle's name, status,
\* mileage, customFields and documents as they were.
C26_UnchangedEditIsSaved ==
    [][ (HandleSubmitVehicle /\ UnchangedEdit) =>
            (~showVehicleForm' /\ EditedVehicleKept) ]_vars

\* an unchanged edit that passes validation keeps the five fields
C26_UnchangedEditKeepsFields ==
    [][ (SubmitSaved /\ UnchangedEdit) => EditedVehicleKept ]_vars

\* an unchanged edit has been saved
C26_UnchangedEditSaved ==
    \E i \in VehicleIndexes :
        /\ vehicles[i].updatedBy = CurrentUser
        /\ vehicles[i].customFields = mockVehicles[i].customFields
        /\ vehicles[i].name = mockVehicles[i].name

\* ---------------------------------------------------------- cancel claims
\* C27: cancelling the vehicle form leaves the vehicle collection as it was
\* when the form was opened: neither the edits made in the open form nor the
\* cancel itself change the collection.
C27_CancelKeepsVehicles ==
    /\ [][ CancelVehicleForm => vehicles' = vehicles ]_vars
    /\ [][ (showVehicleForm /\ showVehicleForm' /\ vfFormData' # vfFormData)
              => vehicles' = vehicles ]_vars

\* an edit form whose data were changed into something a save would accept
C27_Witness ==
    /\ showVehicleForm
    /\ editingVehicle # <<>>
    /\ \E i \in VehicleIndexes : vehicles[i] = editingVehicle[1]
    /\ vfFormData.name # editingVehicle[1].name
    /\ vfFormData.customFields # editingVehicle[1].customFields
    /\ FormAcceptable

\* ---------------------------------------------------------- delete claims
\* vs without the vehicles whose id is id, the others in their order
IsWithoutId(after, vs, id) ==
    LET kept == {j \in 1..Len(vs) : vs[j].id # id}
    IN /\ Len(after) = Cardinality(kept)
       /\ \A j \in kept : after[Cardinality({k \in kept : k <= j})] = vs[j]

\* C28: deleting a vehicle removes exactly the vehicles with that id from
\* the vehicle collection and leaves the reminder collection unchanged.
C28_DeleteRemovesById ==
    [][ onDeleteVehicle =>
          /\ \E i \in VehicleIndexes : IsWithoutId(vehicles', vehicles, vehicles[i].id)
          /\ Len(vehicles') < Len(vehicles)
          /\ reminders' = reminders ]_vars

\* the second seeded vehicle is gone, its reminder is still there
C28_Witness ==
    /\ vehicles = <<mockVehicles[1], mockVehicles[3]>>
    /\ reminders = mockReminders
    /\ \E r \in ReminderIndexes :
          \A i \in VehicleIndexes : vehicles[i].id # reminders[r].vehicleId

\* ------------------------------------------------------------ save claims
\* C29: an accepted add submission appends exactly one record and leaves the
\* others unchanged and in order; an accepted edit submission changes
\* neither the number nor the order of the vehicles; after either the form
\* is closed and no vehicle is marked as being edited.
C29_SaveShape ==
    [][ (HandleSubmitVehicle /\ FormAcceptable) =>
          /\ editingVehicle = <<>> =>
                /\ Len(vehicles') = Len(vehicles) + 1
                /\ SubSeq(vehicles', 1, Len(vehicles)) = vehicles
          /\ editingVehicle # <<>> =>
                /\ Len(vehicles') = Len(vehicles)
                /\ \A i \in VehicleIndexes : vehicles'[i].id = vehicles[i].id
          /\ ~showVehicleForm'
          /\ editingVehicle' = <<>> ]_vars

\* a fourth vehicle has been appended to the three seeded ones
C29_Witness ==
    /\ Len(vehicles) = 4
    /\ SubSeq(vehicles, 1, 3) = mockVehicles
    /\ vehicles[4].updatedBy = CurrentUser
    /\ ~showVehicleForm
    /\ editingVehicle = <<>>

\* an edit has been saved in place
C29_EditWitness ==
    /\ Len(vehicles) = 3
    /\ \E i \in VehicleIndexes :
          /\ vehicles[i].updatedBy = CurrentUser
          /\ vehicles[i].id = mockVehicles[i].id
    /\ ~showVehicleForm
    /\ editingVehicle = <<>>

\* --------------------------------------------------- reminder form claims
\* a vehicle is selected, the description is non-empty after trimming, the
\* trigger value is present and valid for the trigger type
ReminderFormValid ==
    /\ rpFormData.vehicleId # <<>>
    /\ Trim(rpFormData.description) # <<>>
    /\ rpFormData.triggerValue # <<>>
    /\ rpFormData.triggerType = "mileage" =>
          /\ ToNumber(rpFormData.triggerValue) # <<>>
          /\ ToNumber(rpFormData.triggerValue)[1] > 0
    /\ rpFormData.triggerType = "date" =>
          ParseDate(rpFormData.triggerValue) # <<>>

\* the positions the submission writes: the appended one, or the edited id
SavedPositions ==
    IF editingReminder = <<>> THEN {Len(reminders')}
    ELSE {i \in DOMAIN reminders' : reminders'[i].id = editingReminder[1].id}

\* C30: a submission of the reminder form is accepted only if a vehicle is
\* selected, the description is non-empty after trimming and the trigger
\* value is present and valid for its type; a rejected submission leaves the
\* collection unchanged; so every reminder saved by the form has a vehicle
\* and a non-empty description, and a positive threshold if it is a mileage
\* reminder.
C30_ReminderFormAcceptance ==
    /\ [][ HandleSubmitReminder =>
             IF ReminderFormValid
             THEN ~rpShowForm'
             ELSE rpShowForm' /\ reminders' = reminders ]_vars
    /\ [][ (HandleSubmitReminder /\ ~rpShowForm') =>
             \A i \in SavedPositions :
                /\ rpFormData.vehicleId = <<reminders'[i].vehicleId>>
                /\ reminders'[i].description # <<>>
                /\ reminders'[i].triggerType = "mileage" =>
                      /\ reminders'[i].triggerValue.t = "number"
                      /\ reminders'[i].triggerValue.n > 0 ]_vars
    /\ [](\A i \in ReminderIndexes :
             /\ reminders[i].description # <<>>
             /\ reminders[i].triggerType = "mileage" =>
                   reminders[i].triggerValue.n > 0)

\* a reminder added through the form as the fourth of the collection
C30_Witness ==
    /\ ~rpShowForm
    /\ Len(reminders) = 4
    /\ reminders[4].description = <<"O","i","l">>
    /\ reminders[4].triggerType = "date"

\* a mileage threshold of 0 has been rejected
C30_RejectedWitness ==
    /\ rpShowForm
    /\ rpFormData.triggerType = "mileage"
    /\ rpFormData.triggerValue = <<"0">>
    /\ "triggerValue" \in DOMAIN rpErrors

====
